---------------------------- MODULE Spec2Model ----------------------------
(***************************************************************************)
(* Model of the identity-reconciliation logic of the CW-Hub pipeline:      *)
(*   - normalize            (pipeline/sync_hubstaff.py,                    *)
(*                           pipeline/map_hubstaff_users.py)               *)
(*   - sync_hours           (pipeline/sync_hubstaff.py)                    *)
(*   - main                 (pipeline/map_hubstaff_users.py)               *)
(*   - fuzzy_match_chatter  (scripts/migrate_airtable_scores.py)           *)
(*                                                                         *)
(* A name is a sequence of characters.  Characters are one-token strings:  *)
(*   "a" "b" "c"  lower-case letters          "B"   an upper-case letter   *)
(*   "e^"  the precomposed accented letter U+00E9                          *)
(*   "^"   the combining acute accent U+0301 (category Mn)                 *)
(*   " "   space                               "\t"  tab                   *)
(* Hours are kept in hundredths of an hour (the code rounds every hours    *)
(* value to 2 decimals), None is the string "None".                        *)
(***************************************************************************)
EXTENDS Integers, Sequences, FiniteSets, TLC

VARIABLES
    prog,            \* which script this behaviour runs
    pc,              \* position inside the script
    \* ---- normalize applied to one input, then to its own result
    raw, once, twice,
    \* ---- sync_hours
    chatters, chatter_by_hsid, chatter_by_name, org, nacts,
    all_rows, seen_keys, unmatched, matched_by_id, matched_by_name,
    posted, resolved, total, key_acts,
    \* ---- map_hubstaff_users.main
    dry_run, hs_users, already_mapped, name_to_chatter, queue, matched,
    unmatched_hs, skip_already, patched, app_settings_posts,
    \* ---- fuzzy_match_chatter
    fname, chatters_map, fresult,
    \* ---- generate_coaching.main
    current_hour, today, stats, coaching_logs, active_tls, tl, team_stats, stats_seen,
    stat, days_since, red_flags, priority, tasks_created, tasks, notifications,
    \* ---- sync_hours run twice over the same input
    activities, run, now, first_payload, stored_refresh, exchanges, access_token

normVars  == <<raw, once, twice>>
syncRestVars == <<chatter_by_hsid, chatter_by_name, org, nacts,
               all_rows, seen_keys, unmatched, matched_by_id, matched_by_name,
               posted, resolved, total, key_acts>>
syncVars  == <<chatters, syncRestVars>>
mapVars   == <<dry_run, hs_users, already_mapped, name_to_chatter, queue, matched,
               unmatched_hs, skip_already, patched, app_settings_posts>>
fuzzyVars == <<fname, chatters_map, fresult>>
coachVars == <<current_hour, today, stats, coaching_logs, active_tls, tl, team_stats,
               stats_seen, stat, days_since, red_flags, priority, tasks_created, tasks,
               notifications>>
rerunVars == <<activities, run, now, first_payload, stored_refresh, exchanges,
               access_token>>
moreVars  == <<coachVars, rerunVars>>
vars      == <<prog, pc, normVars, syncVars, mapVars, fuzzyVars, moreVars>>

None == "None"

(***************************************************************************)
(* Bounds of the model.                                                    *)
(***************************************************************************)
MaxLen == 5        \* longest raw name given to normalize
MaxChatters == 2   \* most chatters in the roster of a sync_hours run
MaxActs == 3       \* most daily activities fetched in a sync_hours run
MaxHsUsers == 2    \* most Hubstaff users fetched in a map_hubstaff_users run
MaxNameLen == 4    \* longest Airtable name given to fuzzy_match_chatter

\* All sequences over S of length at most n.
SeqsUpTo(S, n) == UNION { [1..k -> S] : k \in 0..n }

(***************************************************************************)
(* Name Normalizer: strip_accents(name).lower().strip().replace("  ", " ") *)
(***************************************************************************)
IsSpace(c) == c \in {" ", "\t"}

\* unicodedata.normalize("NFD", c) for one character.
NFD(c) == IF c = "e^" THEN <<"e", "^">> ELSE <<c>>

\* unicodedata.category(c) != "Mn"
NotMn(c) == c # "^"

RECURSIVE Concat(_)
Concat(ss) == IF ss = <<>> THEN <<>> ELSE Head(ss) \o Concat(Tail(ss))

strip_accents(s) == SelectSeq(Concat([i \in 1..Len(s) |-> NFD(s[i])]), NotMn)

LowerChar(c) == IF c = "B" THEN "b" ELSE c
lower(s) == [i \in 1..Len(s) |-> LowerChar(s[i])]

RECURSIVE lstrip(_)
lstrip(s) == IF s # <<>> /\ IsSpace(Head(s)) THEN lstrip(Tail(s)) ELSE s

RECURSIVE rstrip(_)
rstrip(s) ==
    IF s # <<>> /\ IsSpace(s[Len(s)]) THEN rstrip(SubSeq(s, 1, Len(s) - 1)) ELSE s

strip(s) == rstrip(lstrip(s))

\* str.replace("  ", " "): one left-to-right pass over non-overlapping
\* occurrences of two spaces.
RECURSIVE replace2(_)
replace2(s) ==
    IF Len(s) >= 2 /\ s[1] = " " /\ s[2] = " "
    THEN <<" ">> \o replace2(SubSeq(s, 3, Len(s)))
    ELSE IF s = <<>> THEN <<>> ELSE <<Head(s)>> \o replace2(Tail(s))

normalize(name) == replace2(strip(lower(strip_accents(name))))

(***************************************************************************)
(* Idle values of the variables of the scripts a behaviour does not run.   *)
(***************************************************************************)
NormIdle == raw = <<>> /\ once = <<>> /\ twice = <<>>

SyncRestIdle ==
    /\ chatter_by_hsid = <<>> /\ chatter_by_name = <<>>
    /\ org = 0 /\ nacts = 0 /\ all_rows = <<>> /\ seen_keys = {}
    /\ unmatched = <<>> /\ matched_by_id = 0 /\ matched_by_name = 0
    /\ posted = <<>> /\ resolved = {} /\ total = <<>> /\ key_acts = 0

MapIdle ==
    /\ dry_run = FALSE /\ hs_users = <<>> /\ already_mapped = {}
    /\ name_to_chatter = <<>> /\ queue = <<>> /\ matched = <<>>
    /\ unmatched_hs = <<>> /\ skip_already = 0 /\ patched = <<>>
    /\ app_settings_posts = <<>>

SyncIdle == chatters = <<>> /\ SyncRestIdle

FuzzyIdle ==
    /\ fname = <<>> /\ chatters_map = <<>>
    /\ fresult = [id |-> None, full_name |-> <<>>]

CoachIdle ==
    /\ current_hour = 0 /\ today = 0 /\ stats = <<>> /\ coaching_logs = <<>>
    /\ active_tls = <<>> /\ tl = 0
    /\ team_stats = <<>> /\ stats_seen = 0
    /\ stat = <<>> /\ days_since = 0 /\ red_flags = <<>> /\ priority = 0
    /\ tasks_created = 0 /\ tasks = <<>> /\ notifications = <<>>

RerunIdle ==
    /\ activities = <<>> /\ run = 0 /\ now = 0 /\ first_payload = <<>>
    /\ stored_refresh = None /\ exchanges = 0 /\ access_token = None

MoreIdle == CoachIdle /\ RerunIdle

(***************************************************************************)
(* SpecNormalize: normalize applied to a raw name and then to its result.  *)
(***************************************************************************)
Alphabet == {"a", "B", "e^", " ", "\t"}

InitNormalize ==
    /\ prog = "normalize" /\ pc = "start"
    /\ raw \in SeqsUpTo(Alphabet, MaxLen)
    /\ once = <<>> /\ twice = <<>>
    /\ SyncIdle /\ MapIdle /\ FuzzyIdle /\ MoreIdle

NormalizeOnce ==
    /\ prog = "normalize" /\ pc = "start"
    /\ once' = normalize(raw)
    /\ pc' = "once"
    /\ UNCHANGED <<prog, raw, twice, syncVars, mapVars, fuzzyVars, moreVars>>

NormalizeTwice ==
    /\ prog = "normalize" /\ pc = "once"
    /\ twice' = normalize(once)
    /\ pc' = "twice"
    /\ UNCHANGED <<prog, raw, once, syncVars, mapVars, fuzzyVars, moreVars>>

NextNormalize == NormalizeOnce \/ NormalizeTwice

SpecNormalize == InitNormalize /\ [][NextNormalize]_vars

\* C1: normalize is idempotent: normalize(normalize(x)) = normalize(x) for
\* every input, runs of three or more spaces included.
C1_Idempotent == pc = "twice" => twice = once

\* C2: the result of normalize has no leading or trailing whitespace and no
\* two adjacent whitespace characters.
C2_NoAdjacentWhitespace ==
    pc # "start" =>
        /\ once = <<>> \/ (~IsSpace(once[1]) /\ ~IsSpace(once[Len(once)]))
        /\ \A i \in 1..(Len(once) - 1) : ~(IsSpace(once[i]) /\ IsSpace(once[i + 1]))

(***************************************************************************)
(* Python dict, as a function: d.get(k) and d[k] = v.                      *)
(***************************************************************************)
DictGet(d, k) == IF k \in DOMAIN d THEN d[k] ELSE None
DictPut(d, k, v) == [x \in (DOMAIN d) \cup {k} |-> IF x = k THEN v ELSE d[x]]

(***************************************************************************)
(* sync_hours (pipeline/sync_hubstaff.py)                                  *)
(***************************************************************************)
\* The organizations the Hubstaff account belongs to and the legacy one.
Orgs == <<580385, 529677, 643051>>
SKIP_ORGS == {529677}
IsActiveOrg(o) == o \notin SKIP_ORGS
active_orgs == SelectSeq(Orgs, IsActiveOrg)

\* Hubstaff users and the names their profiles carry (member_names).  The
\* profile of u4 gives no name (lines 112-118 and 225-233 leave such a user
\* out of member_names), so member_names.get(user_id, "") is "" for it.
HsUsers == {"u1", "u2", "u3", "u4"}
member_names(user_id) ==
    CASE user_id = "u1" -> <<"e^", " ", "b">>
      [] user_id = "u2" -> <<"e", " ", "B">>
      [] user_id = "u3" -> <<"a">>
      [] OTHER -> <<>>

\* Roster names and stored Hubstaff ids a chatter row may carry.
NamePool == { <<"e^", " ", " ", "B">>, <<"c">> }
StoredIds == {None, "u1"}
ChatterId(i) == <<"c1", "c2", "c3", "c4">>[i]

\* Rosters: at most one chatter per stored hubstaff_user_id; the empty roster
\* is also what a failed GET leaves (line 168).
Rosters ==
    { r \in UNION { [1..n -> [id : {"c1", "c2", "c3", "c4"}, full_name : NamePool,
                                hubstaff_user_id : StoredIds]] : n \in 0..MaxChatters } :
        /\ \A i \in 1..Len(r) : r[i].id = ChatterId(i)
        /\ \A i, j \in 1..Len(r) :
              (i # j /\ r[i].hubstaff_user_id # None)
                  => r[i].hubstaff_user_id # r[j].hubstaff_user_id }

\* Seconds tracked and dates an activity may carry ("" is a missing date).
TrackedPool == {17, 8100, 12600}
DatePool == {"", "2024-01-10", "2024-01-11"}

\* round(n / d, 2) in hundredths; a value exactly half-way between two
\* hundredths goes where the binary float of n / d lies (up when tieUp).
Round2(n, d, tieUp) ==
    LET q == (100 * n) \div d
        r == (100 * n) % d
    IN  IF 2 * r < d THEN q
        ELSE IF 2 * r > d THEN q + 1
        ELSE IF tieUp THEN q + 1 ELSE q

\* The half-way second counts (36 k + 18) below 2000 whose quotient by 3600
\* is a float above the decimal midpoint (18 / 3600 is the float
\* 0.005000000000000000104...); the other half-way counts lie below it.
FloatAboveHalf ==
    {18, 90, 126, 198, 234, 306, 342, 414, 486, 594, 702, 810, 918, 954, 990, 1134,
     1170, 1206, 1350, 1386, 1422, 1458, 1602, 1638, 1674, 1818, 1854, 1890, 1926,
     1962, 1998}

\* hours = round(tracked_seconds / 3600, 2)
hours_of(tracked_seconds) ==
    Round2(tracked_seconds, 3600, tracked_seconds \in FloatAboveHalf)

\* round(row["hours_worked"] + hours, 2): both operands are hundredths and the
\* float error of the sum is far below 0.005, so no tie arises.
\* (add_hours_overwrite: the last write wins instead of the sum.)
add_hours_overwrite(old, hours) == hours
add_hours(old, hours) == Round2(old + hours, 100, FALSE)

\* dedup_key = f"{chatter_id}:{date}"
dedup_key(chatter_id, date) == chatter_id \o ":" \o date

\* Lines 174-179: the two lookup tables, later chatters overwriting earlier.
RECURSIVE build_by_hsid(_, _)
build_by_hsid(cs, d) ==
    IF cs = <<>> THEN d
    ELSE build_by_hsid(Tail(cs),
            IF Head(cs).hubstaff_user_id # None
            THEN DictPut(d, Head(cs).hubstaff_user_id, Head(cs).id) ELSE d)

RECURSIVE build_by_name(_, _)
build_by_name(cs, d) ==
    IF cs = <<>> THEN d
    ELSE build_by_name(Tail(cs), DictPut(d, normalize(Head(cs).full_name), Head(cs).id))

\* Lines 239-248: strategy 1 by hubstaff_user_id, strategy 2 by name.
\* (resolve_name_first: the two strategies in the opposite order.)
resolve_name_first(user_id, user_name) ==
    LET by_name == DictGet(chatter_by_name, normalize(user_name))
        by_id == DictGet(chatter_by_hsid, user_id)
    IN  IF by_name # None THEN [chatter_id |-> by_name, how |-> "name"]
        ELSE IF by_id # None THEN [chatter_id |-> by_id, how |-> "id"]
        ELSE [chatter_id |-> None, how |-> "none"]
\* (resolve_until_unmatched: after the first unmatched user nothing matches.)
resolve_until_unmatched(user_id, user_name) ==
    LET by_id == DictGet(chatter_by_hsid, user_id)
        by_name == DictGet(chatter_by_name, normalize(user_name))
    IN  IF unmatched # <<>> THEN [chatter_id |-> None, how |-> "none"]
        ELSE IF by_id # None THEN [chatter_id |-> by_id, how |-> "id"]
        ELSE IF by_name # None THEN [chatter_id |-> by_name, how |-> "name"]
        ELSE [chatter_id |-> None, how |-> "none"]
resolve(user_id, user_name) ==
    LET by_id == DictGet(chatter_by_hsid, user_id)
        by_name == DictGet(chatter_by_name, normalize(user_name))
    IN  IF by_id # None THEN [chatter_id |-> by_id, how |-> "id"]
        ELSE IF by_name # None THEN [chatter_id |-> by_name, how |-> "name"]
        ELSE [chatter_id |-> None, how |-> "none"]

\* Lines 262-265: the first row of the pair gets the hours added.
FirstRow(rows, chatter_id, date) ==
    CHOOSE i \in 1..Len(rows) :
        /\ rows[i].chatter_id = chatter_id /\ rows[i].date = date
        /\ \A j \in 1..(i - 1) : ~(rows[j].chatter_id = chatter_id /\ rows[j].date = date)

\* Lines 260-267: the keys seen after an activity with a date and hours > 0.
\* (seen_add_forgotten: the key is never added.)
seen_add_forgotten(keys, chatter_id, date) == keys
seen_add(keys, chatter_id, date) == keys \cup {dedup_key(chatter_id, date)}

\* Lines 259-273: merge one activity into all_rows.
accumulate(rows, keys, chatter_id, date, hours) ==
    IF dedup_key(chatter_id, date) \in keys
    THEN LET i == FirstRow(rows, chatter_id, date)
         IN  [rows EXCEPT ![i].hours_worked = add_hours(@, hours)]
    ELSE Append(rows, [chatter_id |-> chatter_id, date |-> date, hours_worked |-> hours])

InitSync ==
    /\ prog = "sync_hours" /\ pc = "load"
    /\ chatters \in Rosters
    /\ chatter_by_hsid = <<>> /\ chatter_by_name = <<>>
    /\ org = 0 /\ nacts = 0 /\ all_rows = <<>> /\ seen_keys = {}
    /\ unmatched = <<>> /\ matched_by_id = 0 /\ matched_by_name = 0
    /\ posted = <<>> /\ resolved = {} /\ total = <<>> /\ key_acts = 0
    /\ NormIdle /\ MapIdle /\ FuzzyIdle /\ MoreIdle

\* Lines 163-189: load the roster, build the lookup tables, enter the first
\* active organization.
LoadChatters ==
    /\ prog = "sync_hours" /\ pc = "load"
    /\ chatter_by_hsid' = build_by_hsid(chatters, <<>>)
    /\ chatter_by_name' = build_by_name(chatters, <<>>)
    /\ org' = 1
    /\ pc' = "acts"
    /\ UNCHANGED <<prog, chatters, nacts, all_rows, seen_keys, unmatched,
                   matched_by_id, matched_by_name, posted, resolved, total,
                   key_acts, normVars, mapVars, fuzzyVars, moreVars>>

\* (has_date_only: the hours are not looked at.)
has_date_only(date, hours) == date # ""
\* Line 259: if date and hours > 0
has_date_and_hours(date, hours) == date # "" /\ hours > 0

\* Lines 235-273: the loop body for one daily activity of the current
\* organization.  resolved (who each Hubstaff user resolved to, and how),
\* total (per key: the exact sum of the hours kept, their number and their
\* organizations) and key_acts (the activities whose user_id is stored on a
\* chatter) record what was observed; they are not program state.
Activity(user_id, tracked, date) ==
    /\ prog = "sync_hours" /\ pc = "acts" /\ nacts < MaxActs
    /\  LET user_name == member_names(user_id)
            res == resolve(user_id, user_name)
            chatter_id == res.chatter_id
            hours == hours_of(tracked)
            key == dedup_key(chatter_id, date)
            kept == has_date_and_hours(date, hours) /\ chatter_id # None
        IN  /\ nacts' = nacts + 1
            /\ all_rows' = IF kept
                           THEN accumulate(all_rows, seen_keys, chatter_id, date, hours)
                           ELSE all_rows
            /\ seen_keys' = IF kept THEN seen_add(seen_keys, chatter_id, date) ELSE seen_keys
            /\ matched_by_id' = IF res.how = "id" THEN matched_by_id + 1 ELSE matched_by_id
            /\ matched_by_name' =
                   IF res.how = "name" THEN matched_by_name + 1 ELSE matched_by_name
            /\ unmatched' = IF chatter_id = None /\ user_name # <<>>
                            THEN DictPut(unmatched, user_name, user_id) ELSE unmatched
            /\ resolved' = resolved \cup
                   {[user_id |-> user_id, chatter_id |-> chatter_id, how |-> res.how]}
            /\ total' =
                   IF kept
                   THEN LET old == IF key \in DOMAIN total THEN total[key]
                                   ELSE [sum |-> 0, n |-> 0, orgs |-> {}]
                        IN  DictPut(total, key,
                                [sum |-> old.sum + hours, n |-> old.n + 1,
                                 orgs |-> old.orgs \cup {active_orgs[org]}])
                   ELSE total
            /\ key_acts' =
                   IF user_id # None
                      /\ \E i \in 1..Len(chatters) : chatters[i].hubstaff_user_id = user_id
                   THEN key_acts + 1 ELSE key_acts
    /\ UNCHANGED <<prog, pc, chatters, chatter_by_hsid, chatter_by_name, org, posted,
                   normVars, mapVars, fuzzyVars, moreVars>>

\* Line 235: for act in activities
ProcessActivity ==
    \E user_id \in HsUsers, tracked \in TrackedPool, date \in DatePool :
        Activity(user_id, tracked, date)

\* Line 191: the activities of this organization are exhausted, the next
\* active organization is entered.
NextOrg ==
    /\ prog = "sync_hours" /\ pc = "acts" /\ org < Len(active_orgs)
    /\ org' = org + 1
    /\ UNCHANGED <<prog, pc, chatters, chatter_by_hsid, chatter_by_name, nacts, all_rows,
                   seen_keys, unmatched, matched_by_id, matched_by_name, posted,
                   resolved, total, key_acts, normVars, mapVars, fuzzyVars, moreVars>>

\* Lines 285-298: after the last organization the rows are upserted.
Upsert ==
    /\ prog = "sync_hours" /\ pc = "acts" /\ org = Len(active_orgs)
    /\ posted' = all_rows
    /\ pc' = "done"
    /\ UNCHANGED <<prog, chatters, chatter_by_hsid, chatter_by_name, org, nacts, all_rows,
                   seen_keys, unmatched, matched_by_id, matched_by_name,
                   resolved, total, key_acts, normVars, mapVars, fuzzyVars, moreVars>>

NextSync == LoadChatters \/ ProcessActivity \/ NextOrg \/ Upsert

SpecSync == InitSync /\ [][NextSync]_vars

\* The chatters of the roster with a given normalized name / stored id.
Named(n) == { i \in 1..Len(chatters) : normalize(chatters[i].full_name) = n }
Keyed(u) == { i \in 1..Len(chatters) : u # None /\ chatters[i].hubstaff_user_id = u }
RowKey(row) == dedup_key(row.chatter_id, row.date)

\* C3: the row of a (chatter, date) pair carries the sum of the hours of all
\* the activities kept for the pair, rounded to 2 decimals, whatever the
\* order and the organizations they came in.
C3_HoursAreSum ==
    \A i \in 1..Len(all_rows) :
        /\ RowKey(all_rows[i]) \in DOMAIN total
        /\ all_rows[i].hours_worked = Round2(total[RowKey(all_rows[i])].sum, 100, FALSE)

\* 3.5 h in one organization and 2.25 h in the other give one row of 5.75 h.
C3_Witness ==
    \E i \in 1..Len(all_rows) :
        /\ RowKey(all_rows[i]) \in DOMAIN total
        /\ total[RowKey(all_rows[i])].n = 2
        /\ total[RowKey(all_rows[i])].orgs = {580385, 643051}
        /\ all_rows[i].hours_worked = 575

\* C4: all_rows holds at most one row per (chatter_id, date) and seen_keys is
\* exactly the set of the keys of its rows.
C4_OneRowPerKey ==
    /\ \A i, j \in 1..Len(all_rows) :
          (all_rows[i].chatter_id = all_rows[j].chatter_id
              /\ all_rows[i].date = all_rows[j].date) => i = j
    /\ seen_keys = { RowKey(all_rows[i]) : i \in 1..Len(all_rows) }

\* A chatter seen in both organizations on one date, next to another row.
C4_Witness ==
    /\ pc = "done" /\ Len(posted) = 2
    /\ \E k \in DOMAIN total : Cardinality(total[k].orgs) = 2

\* C5: no chatter is matched by key for one activity and by name for another
\* activity of the same run.
C5_NoDoubleMatch ==
    \A r1, r2 \in resolved :
        (r1.how = "id" /\ r2.how = "name") => r1.chatter_id # r2.chatter_id

\* C6: an activity whose user_id is stored on a chatter resolves to that
\* chatter by key and is counted in matched_by_id, whatever its user name;
\* the name lookup decides only when the key lookup finds nothing.
C6_KeyMatchFirst ==
    /\ \A r \in resolved :
          /\ Keyed(r.user_id) # {} =>
                /\ r.how = "id"
                /\ \A i \in Keyed(r.user_id) : r.chatter_id = chatters[i].id
          /\ r.how = "name" => Keyed(r.user_id) = {}
    /\ matched_by_id = key_acts

\* A key match for a user whose name is the name of another chatter.
C6_Witness ==
    \E r \in resolved :
        /\ r.how = "id"
        /\ \E i \in Named(normalize(member_names(r.user_id))) : chatters[i].id # r.chatter_id

(***************************************************************************)
(* main (pipeline/map_hubstaff_users.py)                                   *)
(***************************************************************************)
\* Python dict with its insertion order, as a sequence of [key, val]
\* entries: d.get(k), d[k] = v (an existing key keeps its place), del d[k].
OHas(d, k) == \E i \in 1..Len(d) : d[i].key = k
OGet(d, k, none) ==
    IF OHas(d, k) THEN d[CHOOSE i \in 1..Len(d) : d[i].key = k].val ELSE none
OPut(d, k, v) ==
    IF OHas(d, k) THEN [i \in 1..Len(d) |-> IF d[i].key = k THEN [key |-> k, val |-> v] ELSE d[i]]
    ELSE Append(d, [key |-> k, val |-> v])
ODel(d, k) == LET Keep(e) == e.key # k IN SelectSeq(d, Keep)

\* ord(c) of the characters of the model.
CharCode(c) ==
    CASE c = "\t" -> 9   [] c = " " -> 32  [] c = "B" -> 66 [] c = "a" -> 97
      [] c = "b" -> 98   [] c = "c" -> 99  [] c = "e" -> 101
      [] c = "e^" -> 233 [] c = "^" -> 769

\* s < t for Python strings: lexicographic by code point.
RECURSIVE StrLess(_, _)
StrLess(s, t) ==
    IF t = <<>> THEN FALSE
    ELSE IF s = <<>> THEN TRUE
    ELSE IF Head(s) = Head(t) THEN StrLess(Tail(s), Tail(t))
    ELSE CharCode(Head(s)) < CharCode(Head(t))

\* sorted(hs_users.items(), key=lambda x: x[1]): stable, by name.
RECURSIVE sorted_by_name(_)
sorted_by_name(us) ==
    IF us = <<>> THEN <<>>
    ELSE LET rest == sorted_by_name(SubSeq(us, 1, Len(us) - 1))
             x == us[Len(us)]
             \* x goes after every element that is not greater than it
             n == Cardinality({ i \in 1..Len(rest) : ~StrLess(x.name, rest[i].name) })
         IN  SubSeq(rest, 1, n) \o <<x>> \o SubSeq(rest, n + 1, Len(rest))

\* str.split(): the maximal runs of non-whitespace characters.
RECURSIVE split(_)
split(s) ==
    LET t == lstrip(s)
    IN  IF t = <<>> THEN <<>>
        ELSE LET n == IF \E i \in 1..Len(t) : IsSpace(t[i])
                      THEN (CHOOSE i \in 1..Len(t) :
                               IsSpace(t[i]) /\ \A j \in 1..(i - 1) : ~IsSpace(t[j])) - 1
                      ELSE Len(t)
             IN  <<SubSeq(t, 1, n)>> \o split(SubSeq(t, n + 1, Len(t)))

\* f"{parts[0]} {parts[-1]}"
first_last_of(parts) == parts[1] \o <<" ">> \o parts[Len(parts)]

\* Line 200-201: the reduced key of a chatter's key.
c_first_last(key) ==
    LET c_parts == split(key)
    IN  IF Len(c_parts) >= 2 THEN first_last_of(c_parts) ELSE key

\* (already_mapped_none: no stored id is taken into account.)
already_mapped_none(cs) == {}
\* Line 169: the Hubstaff ids already stored on some chatter.
already_mapped_of(cs) ==
    { cs[i].hubstaff_user_id : i \in { j \in 1..Len(cs) : cs[j].hubstaff_user_id # None } }

\* Lines 173-178: normalized name -> chatter, unmapped chatters only, a later
\* chatter of the same name replacing the earlier one.
RECURSIVE build_name_to_chatter(_, _)
build_name_to_chatter(cs, d) ==
    IF cs = <<>> THEN d
    ELSE build_name_to_chatter(Tail(cs),
            IF Head(cs).hubstaff_user_id # None THEN d
            ELSE OPut(d, normalize(Head(cs).full_name), Head(cs)))

\* "chatter = None": no chatter, as a record the chatters can be compared to.
NoChatter == [id |-> None, full_name |-> <<>>, hubstaff_user_id |-> None]

\* Lines 196-204: the first entry, in dict order, whose reduced key is the
\* reduced key of the Hubstaff name; none when there is none or the name has
\* fewer than two tokens.
first_last_match(norm_hs, d) ==
    LET parts == split(norm_hs)
    IN  IF Len(parts) < 2 THEN NoChatter
        ELSE LET hits == { i \in 1..Len(d) : c_first_last(d[i].key) = first_last_of(parts) }
             IN  IF hits = {} THEN NoChatter
                 ELSE d[CHOOSE i \in hits : \A j \in hits : i <= j].val

\* Lines 191-204: exact normalized name first, first/last tokens second.
match_chatter(hs_name, d) ==
    LET exact == OGet(d, normalize(hs_name), NoChatter)
    IN  IF exact # NoChatter THEN [chatter |-> exact, how |-> "exact"]
        ELSE LET fl == first_last_match(normalize(hs_name), d)
             IN  IF fl # NoChatter THEN [chatter |-> fl, how |-> "first_last"]
                 ELSE [chatter |-> NoChatter, how |-> "none"]

\* Names of Hubstaff profiles and of roster chatters in a mapping run.
MapNamePool ==
    { <<"e", " ", "b">>, <<"e^", " ", "c", " ", " ", "B">>, <<"e", " ", "a", " ", "b">>, <<"c">> }
HsUid(i) == <<"u1", "u2", "u3", "u4">>[i]

MapRosters ==
    { r \in UNION { [1..n -> [id : {"c1", "c2", "c3", "c4"}, full_name : MapNamePool,
                                hubstaff_user_id : StoredIds]] : n \in 0..MaxChatters } :
        /\ \A i \in 1..Len(r) : r[i].id = ChatterId(i)
        /\ \A i, j \in 1..Len(r) :
              (i # j /\ r[i].hubstaff_user_id # None)
                  => r[i].hubstaff_user_id # r[j].hubstaff_user_id }

HsUserLists ==
    { u \in UNION { [1..n -> [uid : {"u1", "u2", "u3", "u4"}, name : MapNamePool]] :
                      n \in 0..MaxHsUsers } :
        \A i \in 1..Len(u) : u[i].uid = HsUid(i) }

InitMap ==
    /\ prog = "map_hubstaff_users" /\ pc = "auth"
    /\ dry_run \in BOOLEAN
    /\ hs_users \in HsUserLists
    /\ chatters \in MapRosters
    /\ already_mapped = {} /\ name_to_chatter = <<>> /\ queue = <<>>
    /\ matched = <<>> /\ unmatched_hs = <<>> /\ skip_already = 0 /\ patched = <<>>
    /\ app_settings_posts = <<>>
    /\ NormIdle /\ SyncRestIdle /\ FuzzyIdle /\ MoreIdle

\* The refresh token of the environment, and what the token endpoint may
\* answer to an exchange (lines 65-74): a failure, an access token, or an
\* access token with a rotated refresh token.
HUBSTAFF_REFRESH_TOKEN == "rt0"
ExchangeOutcomes ==
    { [access_token |-> None, refresh_token |-> None],
      [access_token |-> "at", refresh_token |-> None],
      [access_token |-> "at", refresh_token |-> "rt2"] }

\* Lines 152-153: if new_refresh: store_refresh_token(new_refresh), which
\* POSTs the token to app_settings (lines 57-62).
store_new_refresh(new_refresh) ==
    IF new_refresh # None THEN <<new_refresh>> ELSE <<>>

\* Lines 143-153: the stored refresh token, or the one of the environment,
\* is exchanged; after a failure the token of the environment is tried if
\* it is another one; without an access token the script exits.
MapAuth ==
    /\ prog = "map_hubstaff_users" /\ pc = "auth"
    /\ \E stored \in {None, "rt1"}, first \in ExchangeOutcomes, second \in ExchangeOutcomes :
         LET refresh_token == IF stored # None THEN stored ELSE HUBSTAFF_REFRESH_TOKEN
             again == first.access_token = None /\ refresh_token # HUBSTAFF_REFRESH_TOKEN
             final == IF again THEN second ELSE first
         IN  IF final.access_token = None
             THEN pc' = "exit" /\ UNCHANGED app_settings_posts
             ELSE /\ pc' = "fetch"
                  /\ app_settings_posts' = store_new_refresh(final.refresh_token)
    /\ UNCHANGED <<prog, dry_run, hs_users, chatters, already_mapped, name_to_chatter,
                   queue, matched, unmatched_hs, skip_already, patched,
                   normVars, syncRestVars, fuzzyVars, moreVars>>

\* Lines 155-186: users and chatters are fetched, the lookup is built and
\* the users are put in name order.
MapLoad ==
    /\ prog = "map_hubstaff_users" /\ pc = "fetch"
    /\ already_mapped' = already_mapped_of(chatters)
    /\ name_to_chatter' = build_name_to_chatter(chatters, <<>>)
    /\ queue' = sorted_by_name(hs_users)
    /\ pc' = "match"
    /\ UNCHANGED <<prog, dry_run, hs_users, chatters, matched, unmatched_hs, skip_already,
                   patched, app_settings_posts, normVars, syncRestVars, fuzzyVars, moreVars>>

\* Lines 186-210: the loop body for the next Hubstaff user.  The fields how
\* and shared of a match record the strategy that found it and how many
\* remaining entries had the user's reduced key; they are not program state.
MatchUser ==
    /\ prog = "map_hubstaff_users" /\ pc = "match" /\ queue # <<>>
    /\ LET uid == Head(queue).uid
           hs_name == Head(queue).name
           m == match_chatter(hs_name, name_to_chatter)
           parts == split(normalize(hs_name))
           shared == IF Len(parts) < 2 THEN 0
                     ELSE Cardinality({ i \in 1..Len(name_to_chatter) :
                              c_first_last(name_to_chatter[i].key) = first_last_of(parts) })
       IN  /\ queue' = Tail(queue)
           /\ IF uid \in already_mapped
              THEN /\ skip_already' = skip_already + 1
                   /\ UNCHANGED <<matched, unmatched_hs, name_to_chatter>>
              ELSE /\ UNCHANGED skip_already
                   /\ IF m.chatter # NoChatter
                      THEN /\ matched' = Append(matched,
                                  [uid |-> uid, chatter_id |-> m.chatter.id,
                                   hs_name |-> hs_name, sb_name |-> m.chatter.full_name,
                                   how |-> m.how, shared |-> shared])
                           /\ name_to_chatter' =
                                  ODel(name_to_chatter, normalize(m.chatter.full_name))
                           /\ UNCHANGED unmatched_hs
                      ELSE /\ unmatched_hs' = Append(unmatched_hs, [uid |-> uid, name |-> hs_name])
                           /\ UNCHANGED <<matched, name_to_chatter>>
    /\ UNCHANGED <<prog, pc, dry_run, hs_users, chatters, already_mapped, patched,
                   app_settings_posts, normVars, syncRestVars, fuzzyVars, moreVars>>

\* Lines 235-248: the matches are written unless the run is a dry run.
MapWrite ==
    /\ prog = "map_hubstaff_users" /\ pc = "match" /\ queue = <<>>
    /\ patched' = IF matched # <<>> /\ ~dry_run
                  THEN [i \in 1..Len(matched) |->
                           [chatter_id |-> matched[i].chatter_id,
                            hubstaff_user_id |-> matched[i].uid]]
                  ELSE patched
    /\ pc' = "done"
    /\ UNCHANGED <<prog, dry_run, hs_users, chatters, already_mapped, name_to_chatter,
                   queue, matched, unmatched_hs, skip_already, app_settings_posts,
                   normVars, syncRestVars, fuzzyVars, moreVars>>

NextMap == MapAuth \/ MapLoad \/ MatchUser \/ MapWrite

SpecMap == InitMap /\ [][NextMap]_vars

\* The unmapped roster chatters with a given normalized name.
UnmappedNamed(n) ==
    { i \in 1..Len(chatters) :
        chatters[i].hubstaff_user_id = None /\ normalize(chatters[i].full_name) = n }

\* C7: the exact-normalized-name strategy returns a chatter only when exactly
\* one unmapped chatter of the roster has the normalized name; with two or
\* more of that name it returns none.
C7_ExactNameUnique ==
    \A i \in 1..Len(matched) :
        matched[i].how = "exact"
            => Cardinality(UnmappedNamed(normalize(matched[i].hs_name))) = 1

\* C8: the first/last-token fallback assigns a chatter only when exactly one
\* remaining unmapped chatter has the reduced key of the Hubstaff name.
C8_FirstLastUnique ==
    \A i \in 1..Len(matched) : matched[i].how = "first_last" => matched[i].shared = 1

(***************************************************************************)
(* fuzzy_match_chatter (scripts/migrate_airtable_scores.py)                *)
(***************************************************************************)
\* re.sub(r"\s+", " ", s): every run of whitespace becomes one space.
RECURSIVE collapse_ws(_)
collapse_ws(s) ==
    IF s = <<>> THEN <<>>
    ELSE IF IsSpace(Head(s)) THEN <<" ">> \o collapse_ws(lstrip(s))
    ELSE <<Head(s)>> \o collapse_ws(Tail(s))

\* Lines 108-111.
normalize_name(name) == IF name = <<>> THEN <<>> ELSE collapse_ws(lower(strip(name)))

\* difflib.SequenceMatcher.find_longest_match without junk: the longest
\* common block, the one starting earliest in a, then earliest in b.
IsBlock(a, b, i, j, k) ==
    /\ i + k - 1 <= Len(a) /\ j + k - 1 <= Len(b)
    /\ \A d \in 0..(k - 1) : a[i + d] = b[j + d]

find_longest_match(a, b) ==
    LET Sizes == { k \in 0..Len(a) :
                     k = 0 \/ \E i \in 1..Len(a), j \in 1..Len(b) : IsBlock(a, b, i, j, k) }
        k == CHOOSE x \in Sizes : \A y \in Sizes : y <= x
        Is == { i \in 1..Len(a) : \E j \in 1..Len(b) : IsBlock(a, b, i, j, k) }
        i == CHOOSE x \in Is : \A y \in Is : x <= y
        Js == { j \in 1..Len(b) : IsBlock(a, b, i, j, k) }
        j == CHOOSE x \in Js : \A y \in Js : x <= y
    IN  IF k = 0 THEN [i |-> 1, j |-> 1, size |-> 0] ELSE [i |-> i, j |-> j, size |-> k]

\* The total size of get_matching_blocks(): the longest block, then the same
\* on the pieces left of it and on the pieces right of it.
RECURSIVE matches(_, _)
matches(a, b) ==
    IF a = <<>> \/ b = <<>> THEN 0
    ELSE LET m == find_longest_match(a, b)
         IN  IF m.size = 0 THEN 0
             ELSE m.size
                  + matches(SubSeq(a, 1, m.i - 1), SubSeq(b, 1, m.j - 1))
                  + matches(SubSeq(a, m.i + m.size, Len(a)), SubSeq(b, m.j + m.size, Len(b)))

\* SequenceMatcher(None, a, b).ratio() = 2.0 * matches / (len(a) + len(b)),
\* 1.0 for two empty strings; kept as a fraction.
ratio(a, b) ==
    IF Len(a) + Len(b) = 0 THEN [num |-> 1, den |-> 1]
    ELSE [num |-> 2 * matches(a, b), den |-> Len(a) + Len(b)]

\* Comparisons of ratios (fractions with positive denominators).
Greater(r1, r2) == r1.num * r2.den > r2.num * r1.den
AtLeast(r1, r2) == r1.num * r2.den >= r2.num * r1.den
Threshold == [num |-> 3, den |-> 4]       \* 0.75

\* Line 123: if ratio > best_ratio
\* (better_or_equal: >= in its place, the last of a tie wins.)
better_or_equal(r, best_ratio) == AtLeast(r, best_ratio)
better(r, best_ratio) == Greater(r, best_ratio)

\* Line 126: if best_ratio >= 0.75
\* (accept_always: the best candidate is returned whatever its ratio.)
accept_always(best_ratio) == TRUE
accept(best_ratio) == AtLeast(best_ratio, Threshold)

\* "return None", as a record the chatters can be compared to.
NoMatch == [id |-> None, full_name |-> <<>>]

\* Lines 119-125: the scan of chatters_map.items() from entry i on.
RECURSIVE scan(_, _, _, _)
scan(norm, d, i, best) ==
    IF i > Len(d) THEN best
    ELSE LET r == ratio(norm, d[i].key)
         IN  scan(norm, d, i + 1,
                  IF better(r, best.ratio) THEN [ratio |-> r, match |-> d[i].val] ELSE best)

\* Lines 114-128.
fuzzy_match_chatter(name, d) ==
    LET norm == normalize_name(name)
    IN  IF OHas(d, norm) THEN OGet(d, norm, NoMatch)
        ELSE LET best == scan(norm, d, 1, [ratio |-> [num |-> 0, den |-> 1], match |-> NoMatch])
             IN  IF accept(best.ratio) THEN best.match ELSE NoMatch

\* Line 152: chatters_map = {normalize_name(c["full_name"]): c for c in chatters}
RECURSIVE build_chatters_map(_, _)
build_chatters_map(cs, d) ==
    IF cs = <<>> THEN d
    ELSE build_chatters_map(Tail(cs), OPut(d, normalize_name(Head(cs).full_name), Head(cs)))

\* Airtable names and roster names of a migration run.
FuzzyAlphabet == {"a", "b", "B", " "}
FuzzyPool ==
    { <<"a", "b", "a", "a">>, <<"B", "a", "b", "a">>, <<"a", " ", "b">>, <<"a", " ", " ", "B">> }

FuzzyRosters ==
    { r \in UNION { [1..n -> [id : {"c1", "c2", "c3", "c4"}, full_name : FuzzyPool]] :
                      n \in 0..MaxChatters } :
        \A i \in 1..Len(r) : r[i].id = ChatterId(i) }

InitFuzzy ==
    /\ prog = "migrate_airtable_scores" /\ pc = "fetch"
    /\ chatters \in FuzzyRosters
    /\ fname = <<>> /\ chatters_map = <<>> /\ fresult = NoMatch
    /\ NormIdle /\ SyncRestIdle /\ MapIdle /\ MoreIdle

\* Lines 150-153: the roster is fetched and keyed by normalized name.
FuzzyLoad ==
    /\ prog = "migrate_airtable_scores" /\ pc = "fetch"
    /\ chatters_map' = build_chatters_map(chatters, <<>>)
    /\ pc' = "records"
    /\ UNCHANGED <<prog, chatters, fname, fresult, normVars, syncRestVars, mapVars, moreVars>>

\* Line 191: one Airtable record's name is matched (fname records the name).
FuzzyMatch ==
    /\ prog = "migrate_airtable_scores" /\ pc = "records"
    /\ \E name \in SeqsUpTo(FuzzyAlphabet, MaxNameLen) \ {<<>>} :
          /\ fname' = name
          /\ fresult' = fuzzy_match_chatter(name, chatters_map)
    /\ pc' = "matched"
    /\ UNCHANGED <<prog, chatters, chatters_map, normVars, syncRestVars, mapVars, moreVars>>

\* Line 180: the loop goes on to the next record; the name and the match of
\* the record just handled are dropped.
NextRecord ==
    /\ prog = "migrate_airtable_scores" /\ pc = "matched"
    /\ fname' = <<>> /\ fresult' = NoMatch
    /\ pc' = "records"
    /\ UNCHANGED <<prog, chatters, chatters_map, normVars, syncRestVars, mapVars, moreVars>>

NextFuzzy == FuzzyLoad \/ FuzzyMatch \/ NextRecord

SpecFuzzy == InitFuzzy /\ [][NextFuzzy]_vars

\* The normalized input of the last call, its ratio with entry i, the
\* entries with the greatest ratio.
Norm == normalize_name(fname)
RatioOf(i) == ratio(Norm, chatters_map[i].key)
Best == { i \in 1..Len(chatters_map) : \A j \in 1..Len(chatters_map) : AtLeast(RatioOf(i), RatioOf(j)) }
Exact == OHas(chatters_map, Norm)

\* C9: a returned chatter has the normalized input as its normalized name or
\* a ratio of at least 0.75 with it; when every ratio is below 0.75 (and no
\* name is equal) None is returned.
C9_NeverBelowThreshold ==
    pc = "matched" =>
        /\ fresult # NoMatch =>
              \/ normalize_name(fresult.full_name) = Norm
              \/ AtLeast(ratio(Norm, normalize_name(fresult.full_name)), Threshold)
        /\ (~Exact /\ \A i \in 1..Len(chatters_map) : ~AtLeast(RatioOf(i), Threshold))
              => fresult = NoMatch

\* A chatter returned at a ratio of exactly 0.75, by the scan.
C9_Witness ==
    /\ pc = "matched" /\ ~Exact /\ fresult # NoMatch
    /\ ratio(Norm, normalize_name(fresult.full_name)) = [num |-> 6, den |-> 8]

\* C10: without an equal name, the chatter returned is the one of the first
\* entry, in the order of chatters_map, among those of the greatest ratio,
\* and it is returned whenever that ratio is at least 0.75.
C10_FirstOfBest ==
    (pc = "matched" /\ ~Exact) =>
        /\ fresult # NoMatch =>
              fresult = chatters_map[CHOOSE i \in Best : \A j \in Best : i <= j].val
        /\ (\E i \in Best : AtLeast(RatioOf(i), Threshold)) => fresult # NoMatch

\* Two entries tie for the greatest ratio and the first one is returned.
C10_Witness ==
    /\ pc = "matched" /\ ~Exact /\ Cardinality(Best) = 2
    /\ fresult = chatters_map[1].val
    /\ \E i \in Best : i # 1

(***************************************************************************)
(* generate_coaching: the rule engine.  A metric row is a Python dict: a   *)
(* function whose DOMAIN is the set of keys the row has.  KPI values are   *)
(* integers; dates are day numbers.                                        *)
(***************************************************************************)
MIN_HOURS == 4
COACHING_OVERDUE_DAYS == 2

TL_SHIFTS ==
    << [tl_name |-> "danilyn", start |-> 0, end |-> 8,  team |-> "Team Danilyn"],
       [tl_name |-> "huckle",  start |-> 0, end |-> 8,  team |-> "Team Huckle"],
       [tl_name |-> "ezekiel", start |-> 8, end |-> 16, team |-> "Team Ezekiel"] >>

\* dict.get(k, default)
Get(d, k, default) == IF k \in DOMAIN d THEN d[k] ELSE default

\* Line 60 and line 64: .lower().strip().replace("  ", " ")
name_key(name) == replace2(strip(lower(name)))

\* Line 60: the set of keys of the team's active chatters.
chatter_names(cs) == { name_key(cs[i].full_name) : i \in 1..Len(cs) }

\* (eligible_any_hours: the filter without the hours.)
eligible_any_hours(s, names) == name_key(s["employee_name"]) \in names

\* Line 65: the row is kept when it is a team member's and has the hours.
eligible(s, names) ==
    /\ name_key(s["employee_name"]) \in names
    /\ Get(s, "clocked_hours", 0) >= MIN_HOURS

\* Lines 51-68: get_chatter_performance, given what the two queries returned.
get_chatter_performance(day_stats, cs) ==
    SelectSeq(day_stats, LAMBDA s : eligible(s, chatter_names(cs)))

\* Lines 70-79: get_last_coaching, given what the query returned.
get_last_coaching(logs, utc_today) ==
    IF logs = <<>> THEN 999 ELSE utc_today - logs[1].date

\* Lines 85-92: the four rules, in the order of the if statements.
Rules ==
    << [key |-> "golden_ratio",   kpi |-> "Golden Ratio", threshold |-> 30],
       [key |-> "fan_cvr",        kpi |-> "Fan CVR",      threshold |-> 8],
       [key |-> "sales_per_hour", kpi |-> "$/hr",         threshold |-> 40],
       [key |-> "unlock_rate",    kpi |-> "Unlock Rate",  threshold |-> 20] >>

\* (below_or_equal: a value at the threshold counts as below it.)
below_or_equal(value, threshold) == value <= threshold

\* The comparison of lines 85, 87, 89 and 91.
below(value, threshold) == value < threshold

\* The condition of the i-th if statement: stat.get(key, 0) < threshold.
rule_fires(s, i) == below(Get(s, Rules[i].key, 0), Rules[i].threshold)

\* Lines 86, 88, 90, 92 read stat[key]: a rule that fires on a row without
\* the key raises KeyError out of identify_red_flags.
raises_KeyError(s) ==
    \E i \in 1..Len(Rules) : rule_fires(s, i) /\ Rules[i].key \notin DOMAIN s

RECURSIVE flags_from(_, _)
flags_from(s, i) ==
    IF i > Len(Rules) THEN <<>>
    ELSE IF rule_fires(s, i)
         THEN <<[kpi |-> Rules[i].kpi, value |-> s[Rules[i].key],
                 threshold |-> Rules[i].threshold]>> \o flags_from(s, i + 1)
         ELSE flags_from(s, i + 1)

\* Lines 81-94: identify_red_flags on a row on which it does not raise.
identify_red_flags(s) == flags_from(s, 1)

\* (overdue_always: every chatter counts as overdue.)
overdue_always(days) == TRUE

\* Line 175
overdue(days) == days >= COACHING_OVERDUE_DAYS

\* (flag_points_counted: one point for each red flag.)
flag_points_counted(n) == n

\* Lines 177-180
flag_points(n) == IF n >= 2 THEN 2 ELSE IF n >= 1 THEN 1 ELSE 0

\* Lines 174-180
priority_of(days, flags) ==
    (IF overdue(days) THEN 2 ELSE 0) + flag_points(Len(flags))

\* (wanted_always: rows of priority 0 are posted too.)
wanted_always(p) == TRUE

\* Lines 182-183: a row of priority 0 is passed over.
wanted(p) == p # 0

\* Lines 96-125: one talking point per flag, from a fixed template.
target_of(kpi) ==
    CASE kpi = "Golden Ratio" -> ">=30%"
      [] kpi = "Fan CVR"      -> ">=8%"
      [] kpi = "$/hr"         -> ">=$40"
      [] kpi = "Unlock Rate"  -> ">=20%"

actions_of(kpi) ==
    CASE kpi = "Golden Ratio" -> <<"Review PPV sending frequency", "Check message quality",
                                   "Analyze top performer scripts">>
      [] kpi = "Fan CVR"      -> <<"Review fan engagement approach", "Check first-message strategy",
                                   "Analyze conversion funnel">>
      [] kpi = "$/hr"         -> <<"Review time management", "Check high-value fan prioritization",
                                   "Analyze sales techniques">>
      [] kpi = "Unlock Rate"  -> <<"Review PPV pricing strategy", "Check content quality",
                                   "Analyze successful unlocks">>

generate_talking_points(s, flags) ==
    [i \in 1..Len(flags) |-> [kpi |-> flags[i].kpi,
                              target |-> target_of(flags[i].kpi),
                              actions |-> actions_of(flags[i].kpi)]]

\* str.capitalize() of the three team leader names of TL_SHIFTS.
capitalize(tl_name) ==
    CASE tl_name = "danilyn" -> "Danilyn"
      [] tl_name = "huckle"  -> "Huckle"
      [] tl_name = "ezekiel" -> "Ezekiel"

\* Lines 187-207: the task posted for a row.  json.dumps keeps the structure
\* it serialises, so red_flags, talking_points and kpis stay structures.
task_of(s, tl_name, days, flags, p) ==
    [chatter_name |-> s["employee_name"],
     team_tl |-> capitalize(tl_name),
     priority |-> p,
     perf_score |-> Get(s, "sales_per_hour", None),
     days_since_coaching |-> days,
     red_flags |-> flags,
     talking_points |-> generate_talking_points(s, flags),
     kpis |-> [k \in {"sales", "sales_per_hour", "golden_ratio", "fan_cvr",
                      "unlock_rate", "fans_chatted", "clocked_hours"} |-> Get(s, k, 0)],
     perf_source |-> "inflow",
     status |-> "pending"]


(***************************************************************************)
(* generate_coaching.main.  The rows of chatter_daily_stats, the rosters   *)
(* of the teams, the team leader profiles, the coaching logs and the hour  *)
(* and day of the run are fixed when the run starts; the outcome of every  *)
(* POST is drawn when the code sends it.  The date field of a task, the    *)
(* day of the run, is left out of the task record.                         *)
(***************************************************************************)
MaxStats == 2      \* most rows of chatter_daily_stats for the day

\* (get_current_shift_tls_same_day: the hour before midnight is not looked at.)
get_current_shift_tls_same_day(hour) ==
    SelectSeq(TL_SHIFTS, LAMBDA sh : hour = sh.start - 1 \/ hour = sh.start)
\* Lines 36-49
get_current_shift_tls(hour) ==
    SelectSeq(TL_SHIFTS, LAMBDA sh :
        \/ sh.start = 0 /\ hour = 23
        \/ hour = sh.start - 1 \/ hour = sh.start)

\* Line 57: the active chatters of a team.
ChattersOf(team) ==
    CASE team = "Team Danilyn" -> << [full_name |-> <<"a">>] >>
      [] team = "Team Huckle"  -> << [full_name |-> <<" ", "B">>] >>
      [] team = "Team Ezekiel" -> << [full_name |-> <<"a">>], [full_name |-> <<"b">>] >>

\* Lines 129-138: the team leader profiles found for a team.
ProfilesOf(team) ==
    CASE team = "Team Danilyn" -> <<"p1", "p2">>
      [] team = "Team Huckle"  -> <<"p3">>
      [] team = "Team Ezekiel" -> <<"p3">>

EmployeeNames == {<<"a">>, <<"B">>}

\* A metric row with the given name; a field whose option is <<>> is absent.
Row(name, o) ==
    [k \in {"employee_name"} \cup {f \in DOMAIN o : o[f] # <<>>} |->
        IF k = "employee_name" THEN name ELSE o[k][1]]

Opt(S) == {<<>>} \cup { <<v>> : v \in S }

\* Every combination of a value below, at or above each threshold, or no
\* value at all.
AllRows ==
    { Row(n, o) : n \in EmployeeNames,
                  o \in [clocked_hours : Opt({3, 4, 6}),
                         golden_ratio : Opt({25, 30}),
                         fan_cvr : Opt({7, 8, 10}),
                         sales_per_hour : Opt({39, 40, 50}),
                         unlock_rate : Opt({15, 20})] }

Kpis(g, f, s, u) == [golden_ratio |-> g, fan_cvr |-> f, sales_per_hour |-> s, unlock_rate |-> u]

\* The rows of a whole run: with the hours and no flag, one flag, two flags
\* or a KPI absent; short of the hours; without the hours field.
CoachRows ==
    { Row(n, [clocked_hours |-> <<4>>] @@ k) :
        n \in EmployeeNames,
        k \in { Kpis(<<30>>, <<8>>, <<40>>, <<20>>),
                Kpis(<<30>>, <<8>>, <<39>>, <<20>>),
                Kpis(<<25>>, <<10>>, <<50>>, <<15>>),
                Kpis(<<30>>, <<8>>, <<40>>, <<>>) } }
    \cup { Row(n, [clocked_hours |-> <<3>>] @@ Kpis(<<25>>, <<10>>, <<50>>, <<15>>)) :
             n \in EmployeeNames }
    \cup { Row(n, [clocked_hours |-> <<>>] @@ Kpis(<<30>>, <<8>>, <<39>>, <<20>>)) :
             n \in EmployeeNames }

Hours == {0, 8, 12}
Todays == {10, 11}
LogsPool == { <<>>, <<[date |-> 9]>>, <<[date |-> 10]>> }

InitCoach ==
    /\ prog = "generate_coaching" /\ pc = "start"
    /\ current_hour \in Hours
    /\ today = 10
    /\ stats \in SeqsUpTo(CoachRows, MaxStats)
    /\ coaching_logs \in [EmployeeNames -> {<<>>, <<[date |-> 9]>>}]
    /\ active_tls = <<>> /\ tl = 0 /\ team_stats = <<>> /\ stats_seen = 0
    /\ stat = <<>> /\ days_since = 0 /\ red_flags = <<>> /\ priority = 0
    /\ tasks_created = 0 /\ tasks = <<>> /\ notifications = <<>>
    /\ NormIdle /\ SyncIdle /\ MapIdle /\ FuzzyIdle /\ RerunIdle

\* One row of any shape, in a run at the start of the third shift.
InitCoachRow ==
    /\ prog = "generate_coaching" /\ pc = "start"
    /\ current_hour = 8
    /\ today \in Todays
    /\ stats \in { <<r>> : r \in AllRows }
    /\ coaching_logs \in { [n \in EmployeeNames |-> logs] : logs \in LogsPool }
    /\ active_tls = <<>> /\ tl = 0 /\ team_stats = <<>> /\ stats_seen = 0
    /\ stat = <<>> /\ days_since = 0 /\ red_flags = <<>> /\ priority = 0
    /\ tasks_created = 0 /\ tasks = <<>> /\ notifications = <<>>
    /\ NormIdle /\ SyncIdle /\ MapIdle /\ FuzzyIdle /\ RerunIdle


\* (send_hub_notification_retry: a failed POST is sent a second time.)
send_hub_notification_retry(profiles, oks, team, task_count) ==
    LET post(i) == [user_id |-> profiles[i], team |-> team,
                    task_count |-> task_count, ok |-> oks[i]]
        RECURSIVE from(_)
        from(i) == IF i > Len(profiles) THEN <<>>
                   ELSE (IF oks[i] THEN <<post(i)>> ELSE <<post(i), post(i)>>) \o from(i + 1)
    IN  from(1)

\* Lines 140-149: the notifications posted, one for each profile found by
\* lines 129-138; oks[i] is whether the i-th POST returned 200 or 201, which
\* the loop does not look at.
send_hub_notification(profiles, oks, team, task_count) ==
    [i \in 1..Len(profiles) |->
        [user_id |-> profiles[i], team |-> team, task_count |-> task_count, ok |-> oks[i]]]

\* Lines 155-159
GetShiftTls ==
    /\ prog = "generate_coaching" /\ pc = "start"
    /\ LET now_tls == get_current_shift_tls(current_hour)
       IN  active_tls' = IF now_tls = <<>> THEN TL_SHIFTS ELSE now_tls
    /\ tl' = 1
    /\ pc' = "team"
    /\ UNCHANGED <<prog, current_hour, today, stats, coaching_logs, team_stats, stats_seen, stat, days_since,
                   red_flags, priority, tasks_created, tasks, notifications,
                   normVars, syncVars, mapVars, fuzzyVars, rerunVars>>

\* Lines 161-168: the next team's rows are fetched and filtered.
EnterTeam ==
    /\ prog = "generate_coaching" /\ pc = "team"
    /\ team_stats' = get_chatter_performance(stats, ChattersOf(active_tls[tl].team))
    /\ tasks_created' = 0
    /\ stats_seen' = 0
    /\ pc' = "rows"
    /\ UNCHANGED <<prog, current_hour, today, stats, coaching_logs, active_tls, tl, stat, days_since,
                   red_flags, priority, tasks, notifications,
                   normVars, syncVars, mapVars, fuzzyVars, rerunVars>>

\* Lines 169-210: the loop body for the next row of the team.  A KeyError
\* raised by identify_red_flags is caught nowhere and ends the run.
ProcessStat ==
    /\ prog = "generate_coaching" /\ pc = "rows"
    /\ stats_seen < Len(team_stats)
    /\ stats_seen' = stats_seen + 1
    /\ stat' = team_stats[stats_seen + 1]
    /\ \E ok \in BOOLEAN :
         /\ days_since' = get_last_coaching(coaching_logs[stat'["employee_name"]], today)
         /\ IF raises_KeyError(stat')
            THEN /\ pc' = "KeyError"
                 /\ UNCHANGED <<red_flags, priority, tasks, tasks_created>>
            ELSE /\ pc' = pc
                 /\ red_flags' = identify_red_flags(stat')
                 /\ priority' = priority_of(days_since', red_flags')
                 /\ IF wanted(priority')
                    THEN /\ tasks' = Append(tasks,
                                [task |-> task_of(stat', active_tls[tl].tl_name,
                                                  days_since', red_flags', priority'),
                                 ok |-> ok])
                         /\ tasks_created' = IF ok THEN tasks_created + 1 ELSE tasks_created
                    ELSE UNCHANGED <<tasks, tasks_created>>
    /\ UNCHANGED <<prog, current_hour, today, stats, coaching_logs, active_tls, tl, team_stats, notifications,
                   normVars, syncVars, mapVars, fuzzyVars, rerunVars>>

\* Lines 212-215 and line 161: the team's rows are done, its team leaders are
\* notified when a task was created, and the loop goes to the next team.
FinishTeam ==
    /\ prog = "generate_coaching" /\ pc = "rows"
    /\ stats_seen = Len(team_stats)
    /\ IF tasks_created > 0
       THEN LET profiles == ProfilesOf(active_tls[tl].team)
            IN  \E oks \in [1..Len(profiles) -> BOOLEAN] :
                   notifications' = notifications \o
                       send_hub_notification(profiles, oks, active_tls[tl].team, tasks_created)
       ELSE UNCHANGED notifications
    /\ IF tl < Len(active_tls)
       THEN tl' = tl + 1 /\ pc' = "team"
       ELSE tl' = tl /\ pc' = "done"
    /\ UNCHANGED <<prog, current_hour, today, stats, coaching_logs, active_tls, team_stats, stats_seen, stat,
                   days_since, red_flags, priority, tasks_created, tasks,
                   normVars, syncVars, mapVars, fuzzyVars, rerunVars>>

\* Line 39: now.hour of a UTC time.
HoursOfDay == 0..23

\* The rows of a run started at any hour: one of a chatter of two teams with
\* two red flags, one of a chatter of the third team with none.
ShiftRows ==
    { Row(<<"a">>, [clocked_hours |-> <<4>>] @@ Kpis(<<25>>, <<10>>, <<50>>, <<15>>)),
      Row(<<"B">>, [clocked_hours |-> <<4>>] @@ Kpis(<<30>>, <<8>>, <<40>>, <<20>>)) }

\* A run of main at any hour of the day.
InitShift ==
    /\ prog = "generate_coaching" /\ pc = "start"
    /\ current_hour \in HoursOfDay
    /\ today = 10
    /\ stats \in SeqsUpTo(ShiftRows, MaxStats)
    /\ coaching_logs \in {[n \in EmployeeNames |-> l] : l \in {<<>>, <<[date |-> 9]>>}}
    /\ active_tls = <<>> /\ tl = 0 /\ team_stats = <<>> /\ stats_seen = 0
    /\ stat = <<>> /\ days_since = 0 /\ red_flags = <<>> /\ priority = 0
    /\ tasks_created = 0 /\ tasks = <<>> /\ notifications = <<>>
    /\ NormIdle /\ SyncIdle /\ MapIdle /\ FuzzyIdle /\ RerunIdle

NextCoach == GetShiftTls \/ EnterTeam \/ ProcessStat \/ FinishTeam

SpecCoach == InitCoach /\ [][NextCoach]_vars

SpecCoachRow == InitCoachRow /\ [][NextCoach]_vars

SpecShift == InitShift /\ [][NextCoach]_vars


\* The row of chatter_daily_stats a posted task was built from: the row with
\* the task's chatter name and the values of the task's KPI snapshot.
SourceOf(t, s) ==
    /\ t.chatter_name = s["employee_name"]
    /\ \A k \in DOMAIN t.kpis : t.kpis[k] = Get(s, k, 0)

HasHours(s) == "clocked_hours" \in DOMAIN s /\ s["clocked_hours"] >= MIN_HOURS

\* C11: in a run of generate_coaching.main, every row that reaches the task
\* loop has clocked_hours of at least 4, and every task posted was built from
\* a row of the day's stats that has clocked_hours of at least 4; a row with
\* fewer hours, or without the field, has no task posted for it.
C11_OnlyClockedRows ==
    prog = "generate_coaching" =>
        /\ \A i \in 1..Len(team_stats) : HasHours(team_stats[i])
        /\ \A i \in 1..Len(tasks) :
              /\ tasks[i].task.kpis["clocked_hours"] >= MIN_HOURS
              /\ \E j \in 1..Len(stats) :
                    SourceOf(tasks[i].task, stats[j]) /\ HasHours(stats[j])
              /\ \A j \in 1..Len(stats) :
                    SourceOf(tasks[i].task, stats[j]) => HasHours(stats[j])

\* A finished run in which a team member's row with two red flags fell short
\* of the hours, and another row had a task posted.
C11_Witness ==
    /\ prog = "generate_coaching" /\ pc = "done"
    /\ tasks # <<>>
    /\ \E j \in 1..Len(stats), t \in 1..Len(active_tls) :
          /\ ~HasHours(stats[j])
          /\ name_key(stats[j]["employee_name"]) \in chatter_names(ChattersOf(active_tls[t].team))
          /\ ~raises_KeyError(stats[j])
          /\ Len(identify_red_flags(stats[j])) >= 1

\* A step of ProcessStat that evaluated its row to the end.
Evaluated == stats_seen' = stats_seen + 1 /\ pc' # "KeyError"

\* C12: the priority main computes for a row is one of 0, 1, 2, 3, 4; a row
\* of priority 0 has no task posted for it; every task posted has a priority
\* from 1 to 4, the priority computed for its row.
C12_PriorityRange ==
    /\ [](\A i \in 1..Len(tasks) : tasks[i].task.priority \in 1..4)
    /\ [][Evaluated =>
            /\ priority' \in 0..4
            /\ priority' = 0 => tasks' = tasks
            /\ priority' # 0 =>
                  /\ Len(tasks') = Len(tasks) + 1
                  /\ SubSeq(tasks', 1, Len(tasks)) = tasks
                  /\ tasks'[Len(tasks')].task.priority = priority']_vars

\* A finished run whose last row had priority 0, after a task of the highest
\* priority was posted for another row.
C12_Witness ==
    /\ prog = "generate_coaching" /\ pc = "done"
    /\ stat # <<>> /\ priority = 0
    /\ \E i \in 1..Len(tasks) : tasks[i].task.priority = 4
    /\ \A i \in 1..Len(tasks) : ~SourceOf(tasks[i].task, stat)

\* The loop variables of main hold a row that was evaluated to the end.
RowEvaluated == prog = "generate_coaching" /\ stat # <<>> /\ pc # "KeyError"

\* The last task posted was built from the row in the loop variables.
TaskPostedForRow ==
    /\ tasks # <<>>
    /\ SourceOf(tasks[Len(tasks)].task, stat)
    /\ tasks[Len(tasks)].task.priority = priority

\* C13: the priority of a row is 2 if days_since is at least 2, else 0, plus
\* 2 for two or more red flags, 1 for exactly one, 0 for none; a chatter
\* without a coaching record gets the 2 of the first term; with days_since 0
\* and exactly one flag the priority is 1 and the task is posted.
C13_PriorityFormula ==
    RowEvaluated =>
        /\ priority = (IF days_since >= 2 THEN 2 ELSE 0)
                      + (CASE Len(red_flags) >= 2 -> 2
                           [] Len(red_flags) = 1  -> 1
                           [] Len(red_flags) = 0  -> 0)
        /\ coaching_logs[stat["employee_name"]] = <<>> =>
              days_since >= 2 /\ priority >= 2
        /\ days_since = 0 /\ Len(red_flags) = 1 =>
              priority = 1 /\ TaskPostedForRow

\* A row with one red flag of a chatter coached today: priority 1, task posted.
C13_Witness ==
    /\ RowEvaluated
    /\ coaching_logs[stat["employee_name"]] # <<>>
    /\ days_since = 0 /\ Len(red_flags) = 1
    /\ priority = 1 /\ TaskPostedForRow

\* The KPI names of the flags, in the order of the list.
FlagKpis == [i \in 1..Len(red_flags) |-> red_flags[i].kpi]

\* C14: identify_red_flags flags a KPI exactly when its value is strictly
\* below its threshold (Golden Ratio 30, Fan CVR 8, $/hr 40, Unlock Rate 20),
\* a value equal to the threshold is not flagged, and the flags come in the
\* order Golden Ratio, Fan CVR, $/hr, Unlock Rate with the value and the
\* threshold of the KPI; the row 25 / 10 / 50 / 15 gives exactly Golden
\* Ratio and Unlock Rate.
C14_StrictThresholds ==
    RowEvaluated =>
        LET table == << <<"golden_ratio", "Golden Ratio", 30>>,
                        <<"fan_cvr", "Fan CVR", 8>>,
                        <<"sales_per_hour", "$/hr", 40>>,
                        <<"unlock_rate", "Unlock Rate", 20>> >>
            low == SelectSeq(table, LAMBDA e : stat[e[1]] < e[3])
        IN  /\ Len(red_flags) = Len(low)
            /\ \A i \in 1..Len(low) :
                  red_flags[i] = [kpi |-> low[i][2], value |-> stat[low[i][1]],
                                  threshold |-> low[i][3]]
            /\ \A i \in 1..Len(table) :
                  stat[table[i][1]] = table[i][3] =>
                      \A j \in 1..Len(red_flags) : red_flags[j].kpi # table[i][2]
            /\ (stat["golden_ratio"] = 25 /\ stat["fan_cvr"] = 10
                /\ stat["sales_per_hour"] = 50 /\ stat["unlock_rate"] = 15) =>
                   FlagKpis = <<"Golden Ratio", "Unlock Rate">>

\* The row 25 / 10 / 50 / 15 was evaluated and got its two flags.
C14_Witness ==
    /\ RowEvaluated
    /\ stat["golden_ratio"] = 25 /\ stat["fan_cvr"] = 10
    /\ stat["sales_per_hour"] = 50 /\ stat["unlock_rate"] = 15
    /\ FlagKpis = <<"Golden Ratio", "Unlock Rate">>

\* C15: for a row in which a KPI field is absent the rule engine takes the
\* KPI as 0, completes the evaluation of the row without an error and
\* returns a flag for that KPI.
C15_MissingKpiFlagged ==
    (prog = "generate_coaching" /\ stat # <<>>) =>
        \A i \in 1..Len(Rules) :
            Rules[i].key \notin DOMAIN stat =>
                /\ pc # "KeyError"
                /\ \E j \in 1..Len(red_flags) : red_flags[j].kpi = Rules[i].kpi

\* C16 as stated: an eligible chatter coached less than 2 days ago whose row
\* has at most one red flag (none or one) has no task posted.
C16_SuppressedAtMostOneFlag ==
    [][(Evaluated /\ days_since' < 2 /\ Len(red_flags') <= 1) => tasks' = tasks]_vars

\* C16, amended: an eligible chatter coached less than 2 days ago whose row
\* has no red flag has no task posted and none counted; with exactly one red
\* flag a task of priority 1 is posted for the row.
C16_SuppressedNoFlag ==
    [][(Evaluated /\ days_since' < 2) =>
          /\ Len(red_flags') = 0 => tasks' = tasks /\ tasks_created' = tasks_created
          /\ Len(red_flags') = 1 =>
                /\ Len(tasks') = Len(tasks) + 1
                /\ tasks'[Len(tasks')].task.priority = 1
                /\ SourceOf(tasks'[Len(tasks')].task, stat')]_vars

\* A row without a red flag of a chatter coached yesterday or today was
\* evaluated and passed over.
C16_Witness ==
    /\ RowEvaluated /\ stats_seen = 1 /\ tl = 1
    /\ days_since < 2 /\ red_flags = <<>>
    /\ priority = 0 /\ tasks = <<>>

\* The notification POSTs sent to a recipient for a team.
PostsTo(team, user_id) ==
    { i \in 1..Len(notifications) :
        notifications[i].team = team /\ notifications[i].user_id = user_id }

\* The rows of the t-th active team that main posts a task for.
TasksDue(t) ==
    SelectSeq(get_chatter_performance(stats, ChattersOf(active_tls[t].team)),
              LAMBDA s : wanted(priority_of(
                  get_last_coaching(coaching_logs[s["employee_name"]], today),
                  identify_red_flags(s))))

TasksOf(t) ==
    SelectSeq(tasks, LAMBDA x : x.task.team_tl = capitalize(active_tls[t].tl_name))

\* A step of FinishTeam.
TeamFinished == pc = "rows" /\ pc' # "rows" /\ pc' # "KeyError"

\* C20: a notification POST, failed or not, is sent exactly once to each
\* recipient of a notified team; the notification step leaves the posted
\* tasks and their count as they are and goes on to the next team whatever
\* the POSTs returned, so that a finished run has posted the tasks of every
\* team.
C20_NotificationNeverBlocks ==
    /\ [](prog = "generate_coaching" =>
            /\ \A i \in 1..Len(notifications) :
                  \A k \in 1..Len(ProfilesOf(notifications[i].team)) :
                      Cardinality(PostsTo(notifications[i].team,
                                          ProfilesOf(notifications[i].team)[k])) = 1
            /\ pc = "done" =>
                  \A t \in 1..Len(active_tls) : Len(TasksOf(t)) = Len(TasksDue(t)))
    /\ [][TeamFinished =>
            /\ tasks' = tasks /\ tasks_created' = tasks_created
            /\ IF tl < Len(active_tls)
               THEN pc' = "team" /\ tl' = tl + 1
               ELSE pc' = "done"]_vars

\* A finished run in which a notification POST for the first team failed and
\* a task of the second team was posted afterwards.
C20_Witness ==
    /\ prog = "generate_coaching" /\ pc = "done"
    /\ Len(active_tls) >= 2
    /\ \E i \in 1..Len(notifications) :
          notifications[i].team = active_tls[1].team /\ ~notifications[i].ok
    /\ TasksOf(1) # <<>> /\ TasksOf(2) # <<>>

\* C17: every activity that resolved to no chatter is in the unmatched
\* report under its raw user name.
C17_UnmatchedRecorded ==
    prog = "sync_hours" =>
        \A r \in resolved :
            r.how = "none" => member_names(r.user_id) \in DOMAIN unmatched

(***************************************************************************)
(* sync_hours run twice, one run after the other, over the same roster and *)
(* the same activities.  now is what datetime.now(timezone.utc) returned    *)
(* last; the next read returns the same time or a later one.  One chunk    *)
(* of 100 rows holds all the rows of these runs, so the payload of the     *)
(* POST is all_rows.                                                       *)
(***************************************************************************)
MaxRerunActs == 2  \* most daily activities of the input both runs read
MaxTicks == 2      \* most advances of the clock over the two runs

\* The activities of the two active organizations, in fetch order.
ActivityLists ==
    { a \in SeqsUpTo([org : 1..Len(active_orgs), user_id : {"u1", "u3"},
                      tracked : {8100, 12600}, date : {"2024-01-10", "2024-01-11"}],
                     MaxRerunActs) :
        \A i \in 1..(Len(a) - 1) : a[i].org <= a[i + 1].org }

RerunRosters ==
    { <<>>,
      << [id |-> "c1", full_name |-> <<"c">>, hubstaff_user_id |-> "u1"] >>,
      << [id |-> "c1", full_name |-> <<"c">>, hubstaff_user_id |-> "u1"],
         [id |-> "c2", full_name |-> <<"a">>, hubstaff_user_id |-> None] >> }

\* (all_rows_kept: the rows of the run before are still in the list.)
all_rows_kept == all_rows

\* Line 185: all_rows = []
start_all_rows == <<>>

\* Lines 259-273 with the synced_at field of a new row (line 272).
accumulate_at(rows, keys, chatter_id, date, hours, utc_now) ==
    IF dedup_key(chatter_id, date) \in keys
    THEN accumulate(rows, keys, chatter_id, date, hours)
    ELSE Append(rows, [chatter_id |-> chatter_id, date |-> date,
                       hours_worked |-> hours, synced_at |-> utc_now])

InitRerun ==
    /\ prog = "sync_hours twice" /\ pc = "auth"
    /\ chatters \in RerunRosters
    /\ activities \in ActivityLists
    /\ run = 1 /\ now = 0 /\ first_payload = <<>>
    /\ stored_refresh \in {None, HUBSTAFF_REFRESH_TOKEN, "rt1"}
    /\ exchanges = 0 /\ access_token = None
    /\ SyncRestIdle
    /\ NormIdle /\ MapIdle /\ FuzzyIdle /\ CoachIdle

\* (retry_always: the token of the environment is tried again in any case.)
retry_always(refresh_token) == TRUE

\* Line 144: if refresh_token != HUBSTAFF_REFRESH_TOKEN
retry_with_env(refresh_token) == refresh_token # HUBSTAFF_REFRESH_TOKEN

\* Lines 140-153: the stored refresh token (the value of the app_settings
\* row, lines 50-59), or the one of the environment, is exchanged; after a
\* failure the token of the environment is tried if it is another one;
\* without an access token the run returns, with one a new refresh token is
\* stored (lines 61-66).
RerunAuth ==
    /\ prog = "sync_hours twice" /\ pc = "auth"
    /\ \E first \in ExchangeOutcomes, second \in ExchangeOutcomes :
         LET refresh_token == IF stored_refresh # None THEN stored_refresh
                              ELSE HUBSTAFF_REFRESH_TOKEN
             again == first.access_token = None /\ retry_with_env(refresh_token)
             final == IF again THEN second ELSE first
         IN  /\ exchanges' = IF again THEN 2 ELSE 1
             /\ access_token' = final.access_token
             /\ IF final.access_token = None
                THEN pc' = "exit" /\ UNCHANGED stored_refresh
                ELSE /\ pc' = "load"
                     /\ stored_refresh' = IF final.refresh_token # None
                                          THEN final.refresh_token ELSE stored_refresh
    /\ UNCHANGED <<prog, chatters, syncRestVars, activities, run, now, first_payload,
                   normVars, mapVars, fuzzyVars, coachVars>>

\* Lines 163-189: a run loads the roster, builds the lookup tables and
\* starts with empty accumulators.
RerunLoad ==
    /\ prog = "sync_hours twice" /\ pc = "load"
    /\ chatter_by_hsid' = build_by_hsid(chatters, <<>>)
    /\ chatter_by_name' = build_by_name(chatters, <<>>)
    /\ all_rows' = start_all_rows
    /\ seen_keys' = {}
    /\ unmatched' = <<>>
    /\ matched_by_id' = 0 /\ matched_by_name' = 0
    /\ nacts' = 0
    /\ org' = 1
    /\ pc' = "acts"
    /\ UNCHANGED <<prog, chatters, posted, resolved, total, key_acts, activities, run, now,
                   first_payload, stored_refresh, exchanges, access_token,
                   normVars, mapVars, fuzzyVars, coachVars>>

\* Lines 235-273: the loop body for the next activity of the input.
RerunActivity ==
    /\ prog = "sync_hours twice" /\ pc = "acts" /\ nacts < Len(activities)
    /\ LET act == activities[nacts + 1]
           user_name == member_names(act.user_id)
           res == resolve(act.user_id, user_name)
           chatter_id == res.chatter_id
           hours == hours_of(act.tracked)
           kept == chatter_id # None /\ act.date # "" /\ hours > 0
       IN  /\ nacts' = nacts + 1
           /\ org' = act.org
           /\ matched_by_id' = IF res.how = "id" THEN matched_by_id + 1 ELSE matched_by_id
           /\ matched_by_name' =
                  IF res.how = "name" THEN matched_by_name + 1 ELSE matched_by_name
           /\ unmatched' = IF chatter_id = None /\ user_name # <<>>
                           THEN DictPut(unmatched, user_name, act.user_id) ELSE unmatched
           /\ IF kept /\ dedup_key(chatter_id, act.date) \notin seen_keys
              THEN \E tick \in {0, 1} :
                      /\ now + tick <= MaxTicks
                      /\ now' = now + tick
              ELSE now' = now
           /\ all_rows' = IF kept
                          THEN accumulate_at(all_rows, seen_keys, chatter_id, act.date,
                                             hours, now')
                          ELSE all_rows
           /\ seen_keys' = IF kept THEN seen_add(seen_keys, chatter_id, act.date)
                           ELSE seen_keys
    /\ UNCHANGED <<prog, pc, chatters, chatter_by_hsid, chatter_by_name, posted, resolved,
                   total, key_acts, activities, run, first_payload, stored_refresh,
                   exchanges, access_token, normVars, mapVars, fuzzyVars, coachVars>>

\* Lines 285-298: the rows are upserted; after the first run the second one
\* is started, a new process without an access token.
RerunUpsert ==
    /\ prog = "sync_hours twice" /\ pc = "acts" /\ nacts = Len(activities)
    /\ posted' = all_rows
    /\ IF run = 1
       THEN /\ first_payload' = all_rows /\ run' = 2 /\ pc' = "auth"
            /\ exchanges' = 0 /\ access_token' = None
       ELSE UNCHANGED <<first_payload, run, exchanges, access_token>> /\ pc' = "done"
    /\ UNCHANGED <<prog, chatters, chatter_by_hsid, chatter_by_name, org, nacts, all_rows,
                   seen_keys, unmatched, matched_by_id, matched_by_name, resolved, total,
                   key_acts, activities, now, stored_refresh,
                   normVars, mapVars, fuzzyVars, coachVars>>

NextRerun == RerunAuth \/ RerunLoad \/ RerunActivity \/ RerunUpsert

SpecRerun == InitRerun /\ [][NextRerun]_vars

\* A payload without its synced_at fields.
Unstamped(rows) ==
    [i \in 1..Len(rows) |-> [chatter_id |-> rows[i].chatter_id, date |-> rows[i].date,
                             hours_worked |-> rows[i].hours_worked]]

C19_DryRunWritesNothing ==
    (prog = "map_hubstaff_users" /\ dry_run) =>
        patched = <<>> /\ app_settings_posts = <<>>

\* The authentication step of a sync_hours run.
SyncAuthStep == prog = "sync_hours twice" /\ pc = "auth" /\ pc' # "auth"

\* C21: a sync_hours run that obtains no access token stops there: it stores
\* no refresh token, fetches nothing, builds no row and upserts nothing, and
\* nothing follows the stop.  The token of the environment is exchanged only
\* after a failure with a stored token that differs from it, so a run makes
\* one or two exchanges.
C21_AuthFailureStops ==
    /\ [](prog = "sync_hours twice" =>
            /\ exchanges \in 0..2
            /\ pc = "exit" => access_token = None)
    /\ [][SyncAuthStep =>
            /\ exchanges' \in 1..2
            /\ exchanges' = 2 =>
                  stored_refresh # None /\ stored_refresh # HUBSTAFF_REFRESH_TOKEN
            /\ pc' = "exit" <=> access_token' = None
            /\ pc' = "exit" =>
                  /\ stored_refresh' = stored_refresh
                  /\ UNCHANGED <<syncRestVars, chatters, first_payload, now>>]_vars
    /\ [][~(prog = "sync_hours twice" /\ pc = "exit")]_vars

\* A run with activities to fetch stopped after the stored token and the
\* token of the environment were both refused.
C21_Witness ==
    /\ prog = "sync_hours twice" /\ pc = "exit"
    /\ run = 1 /\ activities # <<>>
    /\ exchanges = 2 /\ stored_refresh = "rt1"
    /\ nacts = 0 /\ all_rows = <<>> /\ posted = <<>>

\* The chatter the loaded directory gives a Hubstaff user: the last chatter
\* of the roster with the user's id stored, else the last one with the
\* user's normalized name, else none.
LastOf(S) == CHOOSE i \in S : \A j \in S : j <= i
DirectoryId(u) ==
    IF Keyed(u) # {} THEN chatters[LastOf(Keyed(u))].id
    ELSE IF Named(normalize(member_names(u))) # {}
         THEN chatters[LastOf(Named(normalize(member_names(u))))].id
         ELSE None

\* C22: processing an activity changes neither chatter_by_hsid nor
\* chatter_by_name nor the roster, and the chatter an activity resolves to is
\* the one the loaded directory gives its user, whichever activities,
\* matched or unmatched, were processed before it.
C22_MatcherReadOnly ==
    /\ [](prog = "sync_hours" =>
            /\ \A r \in resolved : r.chatter_id = DirectoryId(r.user_id)
            /\ \A r1, r2 \in resolved : r1.user_id = r2.user_id => r1 = r2)
    /\ [][(prog = "sync_hours" /\ nacts' # nacts) =>
            UNCHANGED <<chatter_by_hsid, chatter_by_name, chatters>>]_vars

\* Three activities of two users, one matched by name and one unmatched.
C22_Witness ==
    /\ prog = "sync_hours" /\ nacts = 3
    /\ Cardinality(resolved) = 2
    /\ \E r \in resolved : r.how = "name"
    /\ \E r \in resolved : r.how = "none"
    /\ unmatched # <<>>

\* C23: every row of all_rows has a date and more than zero hours, and an
\* activity without a date, or whose tracked seconds round to no hours,
\* leaves all_rows and seen_keys as they were (no step that changes one of
\* them is the step of such an activity).
C23_OnlyDatedPositiveRows ==
    /\ [](prog = "sync_hours" =>
            \A i \in 1..Len(all_rows) :
                all_rows[i].date # "" /\ all_rows[i].hours_worked > 0)
    /\ [][(all_rows' # all_rows \/ seen_keys' # seen_keys) =>
            \A tracked \in TrackedPool, date \in DatePool :
                (date = "" \/ hours_of(tracked) <= 0) =>
                    \A user_id \in HsUsers : ~Activity(user_id, tracked, date)]_vars

\* Two activities of users known by id, of which one left a row.
C23_Witness ==
    /\ prog = "sync_hours" /\ nacts = 2 /\ matched_by_id = 2
    /\ Len(all_rows) = 1
    /\ \A k \in DOMAIN total : total[k].n = 1

\* The roster once the patches of the run are applied.
RosterAfterWrite ==
    [k \in 1..Len(chatters) |->
        LET hits == { i \in 1..Len(patched) : patched[i].chatter_id = chatters[k].id }
        IN  IF hits = {} THEN chatters[k]
            ELSE [chatters[k] EXCEPT
                    !.hubstaff_user_id = patched[LastOf(hits)].hubstaff_user_id]]

\* C24: no Hubstaff user and no chatter is in two of the new matches, no
\* matched chatter had a hubstaff_user_id, no matched Hubstaff user was
\* stored on a chatter, and after the write no Hubstaff user id is on two
\* chatters.
C24_MatchesInjective ==
    prog = "map_hubstaff_users" =>
        /\ \A i, j \in 1..Len(matched) :
              i # j => /\ matched[i].uid # matched[j].uid
                       /\ matched[i].chatter_id # matched[j].chatter_id
        /\ \A i \in 1..Len(matched), k \in 1..Len(chatters) :
              /\ chatters[k].id = matched[i].chatter_id => chatters[k].hubstaff_user_id = None
              /\ chatters[k].hubstaff_user_id # matched[i].uid
        /\ \A k, l \in 1..Len(chatters) :
              (k # l /\ RosterAfterWrite[k].hubstaff_user_id # None)
                  => RosterAfterWrite[k].hubstaff_user_id # RosterAfterWrite[l].hubstaff_user_id

\* Two users matched in one run, the second through the first and last
\* tokens, and both matches written.
C24_Witness ==
    /\ prog = "map_hubstaff_users" /\ pc = "done"
    /\ Len(matched) = 2 /\ matched[2].how = "first_last"
    /\ Len(patched) = 2

\* C25: no chatter is assigned through the first and last tokens while
\* another Hubstaff user of the run, not stored on any chatter, has exactly
\* the chatter's normalized name.
C25_ExactBeforeFirstLast ==
    prog = "map_hubstaff_users" =>
        \A i \in 1..Len(matched) :
            matched[i].how = "first_last" =>
                ~ \E u \in 1..Len(hs_users) :
                    /\ hs_users[u].uid # matched[i].uid
                    /\ \A k \in 1..Len(chatters) : chatters[k].hubstaff_user_id # hs_users[u].uid
                    /\ normalize(hs_users[u].name) = normalize(matched[i].sb_name)

\* The notification POSTs of the t-th active team and the task POSTs of that
\* team that returned 200 or 201.
NotificationsOf(t) ==
    SelectSeq(notifications, LAMBDA n : n.team = active_tls[t].team)

TasksCreatedOf(t) == SelectSeq(TasksOf(t), LAMBDA x : x.ok)

\* C26: when the run has ended, a team has its team-lead notification exactly
\* when one of its task POSTs succeeded; a notification is there only when
\* every task POST of its team has been attempted, and it carries the number
\* of the team's successful task POSTs.
C26_NotifiedIffTaskCreated ==
    prog = "generate_coaching" =>
        \A t \in 1..Len(active_tls) :
            /\ pc \in {"done", "KeyError"} =>
                  (NotificationsOf(t) # <<>> <=> TasksCreatedOf(t) # <<>>)
            /\ NotificationsOf(t) # <<>> =>
                  /\ Len(TasksOf(t)) = Len(TasksDue(t))
                  /\ \A i \in 1..Len(NotificationsOf(t)) :
                        NotificationsOf(t)[i].task_count = Len(TasksCreatedOf(t))

\* The hour before a shift start, on the clock of a day.
HourBefore(start) == (start + 23) % 24

\* What get_current_shift_tls returns at every hour of the day: the leads
\* whose shift starts at the hour or at the next one.
ShiftTlsByHour ==
    \A h \in HoursOfDay, i \in 1..Len(TL_SHIFTS) :
        (\E k \in 1..Len(get_current_shift_tls(h)) : get_current_shift_tls(h)[k] = TL_SHIFTS[i])
            <=> (h = TL_SHIFTS[i].start \/ h = HourBefore(TL_SHIFTS[i].start))

\* The teams main goes through are those of active_tls, in order.
TeamsInOrder ==
    /\ pc \in {"team", "rows", "KeyError"} => tl \in 1..Len(active_tls)
    /\ pc = "done" => tl = Len(active_tls)
    /\ \A i \in 1..Len(tasks) :
          \E t \in 1..tl : tasks[i].task.team_tl = capitalize(active_tls[t].tl_name)

\* C27 as stated: get_current_shift_tls returns a lead exactly at the lead's
\* shift start and the hour before it, main goes through the returned leads'
\* teams, and at any other hour it goes through no team.
C27_OffHourNoTeam ==
    (prog = "generate_coaching" /\ pc # "start") =>
        /\ ShiftTlsByHour
        /\ TeamsInOrder
        /\ active_tls = get_current_shift_tls(current_hour)

\* C27, amended: get_current_shift_tls returns a lead exactly at the lead's
\* shift start and the hour before it; main goes through the returned leads'
\* teams when there are any, and through every team of TL_SHIFTS at an hour
\* for which none is returned.
C27_OffHourAllTeams ==
    (prog = "generate_coaching" /\ pc # "start") =>
        /\ ShiftTlsByHour
        /\ TeamsInOrder
        /\ get_current_shift_tls(current_hour) # <<>>
              => active_tls = get_current_shift_tls(current_hour)
        /\ get_current_shift_tls(current_hour) = <<>> => active_tls = TL_SHIFTS

\* A finished run at 15:00 UTC, no shift near, with a task posted for the
\* last team of the table.
C27_Witness ==
    /\ prog = "generate_coaching" /\ pc = "done"
    /\ current_hour = 15
    /\ get_current_shift_tls(current_hour) = <<>>
    /\ tl = 3
    /\ \E i \in 1..Len(tasks) : tasks[i].task.team_tl = "Ezekiel"

=============================================================================
